---- MODULE Spec2Model ----
(***************************************************************************)
(* Model of bridge/setu/listener/tron.go: the TronListener header cycle    *)
(* (ProcessHeader), its checkpoint under "tron-last-block", the log query  *)
(* and the per-log task dispatch of queryAndBroadcastEvents.               *)
(*                                                                         *)
(* One ProcessHeader call is modelled as the sequence of its external      *)
(* calls, in statement order:                                              *)
(*   ProcessHeader  (lines 102-145)  params, Has/Get, range resolution     *)
(*   PutLastBlock   (lines 147-150)  storageClient.Put                     *)
(*   QueryEvents    (lines 156-172)  GetTronEventsByContractAddress        *)
(*   ProcessLog     (lines 174-288)  one iteration of the loop over logs   *)
(* pc names the statement the header processor is at.                      *)
(***************************************************************************)
EXTENDS Integers, Sequences, FiniteSets, TLC

\* ---------------------------------------------------------------- bounds
MaxHead == 3        \* heads received are drawn from 0..MaxHead ...
BigHead == 10       \* ... and from {BigHead, BigHead + 1}
MaxConf == 2        \* TronchainTxConfirmations is drawn from 0..MaxConf
MaxLogs == 2        \* the log query returns at most MaxLogs logs
MaxStagger == 1     \* CalculateTaskDelay reports a position in 0..MaxStagger

\* ------------------------------------------------------ program constants
NumAbis == 3                   \* RootChain, StateSender, StakingInfo
TaskDelayBetweenEachVal == 1   \* util.TaskDelayBetweenEachVal, in stagger rounds

\* the heads the poller may deliver
Heads == (0..MaxHead) \cup {BigHead, BigHead + 1}

\* ---------------------------------------------------- checkpoint encoding
\* Stored bytes are sequences of symbols: 0..9 are the decimal digit bytes,
\* NonDigit stands for any other byte.
NonDigit == 10

RECURSIVE FormatUint(_)
\* big.Int.String() of a non-negative number: decimal, no leading zeros
FormatUint(n) ==
    IF n < 10 THEN <<n>> ELSE Append(FormatUint(n \div 10), n % 10)

RECURSIVE ParseDigits(_, _)
ParseDigits(s, acc) ==
    IF s = <<>> THEN acc
    ELSE ParseDigits(Tail(s), acc * 10 + Head(s))

\* strconv.ParseUint(s, 10, 64): error on the empty string and on any byte
\* that is not a digit.  (The range error for values above 2^64-1 needs a
\* stored number of 20 digits; stored numbers are at most BigHead + 1.)
ParseUint(s) ==
    IF s = <<>> \/ (\E i \in 1..Len(s) : s[i] \notin 0..9)
    THEN [ok |-> FALSE, val |-> 0]
    ELSE [ok |-> TRUE, val |-> ParseDigits(s, 0)]

\* the key-value store restricted to the key tronLastBlockKey
NoKey == [has |-> FALSE, val |-> <<>>]
Stored(bytes) == [has |-> TRUE, val |-> bytes]

\* ------------------------------------------------------ range resolution
\* line 114 with < 0 in place of <= 0
UnconfirmedStrict(latestNumber, confirmationBlocks) ==
    latestNumber < confirmationBlocks

\* line 114: latestNumber.Cmp(confirmationBlocks) <= 0
Unconfirmed(latestNumber, confirmationBlocks) ==
    latestNumber <= confirmationBlocks

\* line 118 without the subtraction of the confirmations
BigSubNoop(x, y) == x

\* line 118: latestNumber.Sub(latestNumber, confirmationBlocks).  The receiver
\* is the *big.Int that newHeader.Number points to, so the subtraction also
\* changes newHeader.Number.
BigSub(x, y) == x - y

\* line 133: result >= newHeader.Number.Uint64()
StaleHead(result, newHeaderNumber) == result >= newHeaderNumber

\* line 136: SetUint64(result + 1).  The uint64 sum wraps only for
\* result = 2^64-1, which line 133 has already returned on.
NextFrom(result) == result + 1

\* lines 143-145: if toBlock.Cmp(fromBlock) == -1 { fromBlock = toBlock }
Clamp(fromBlock, toBlock) == IF toBlock < fromBlock THEN toBlock ELSE fromBlock

\* storageClient.Has: the error is discarded (line 124); on error the returned
\* flag is false
HasLastBlock(st, hasErr) == IF hasErr THEN FALSE ELSE st.has

\* Lines 102-145 as a function of the head, the params call, the store and the
\* outcome of the store reads.  outcome names the return statement taken, or
\* "resolved" when the range (from, to) is computed.
Resolve(h, paramsErr, c, st, hasErr, getErr) ==
    LET none == [outcome |-> "none", hasFailed |-> FALSE, number |-> h,
                 from |-> 0, to |-> 0]
    IN
    IF paramsErr THEN [none EXCEPT !.outcome = "paramsErr"]
    ELSE IF Unconfirmed(h, c) THEN [none EXCEPT !.outcome = "unconfirmed"]
    ELSE
      LET latestNumber == BigSub(h, c)
          \* newHeader.Number after line 118
          newHeaderNumber == latestNumber
          hasLastBlock == HasLastBlock(st, hasErr)
          r == [none EXCEPT !.number = newHeaderNumber, !.hasFailed = hasErr,
                            !.to = latestNumber]
      IN
      IF hasLastBlock /\ getErr THEN [r EXCEPT !.outcome = "getErr"]
      ELSE
        LET p == ParseUint(st.val)
            parsed == hasLastBlock /\ p.ok
        IN
        IF parsed /\ StaleHead(p.val, newHeaderNumber)
        THEN [r EXCEPT !.outcome = "stale"]
        ELSE
          LET fromBlock == IF parsed THEN NextFrom(p.val) ELSE latestNumber
              toBlock == latestNumber
          IN [r EXCEPT !.outcome = "resolved",
                       !.from = Clamp(fromBlock, toBlock)]

\* ------------------------------------------------------------- dispatch
\* Events whose case calls helper.UnpackLog
Decoded == {"Staked", "StakeUpdate", "SignerChange", "UnstakeInit",
            "TopUpFee", "UnJailed"}
\* ... and then reads event.ValidatorId.Uint64()
ById == {"StakeUpdate", "UnstakeInit", "UnJailed"}
\* Events whose case only asks CalculateTaskDelay
Plain == {"NewHeaderBlock", "StateSynced", "Slashed", "StakeAck"}
\* Cases guarded by tl.rootChainType == types.RootChainTypeStake
StakeOnly == Decoded \cup {"Slashed"}

\* A raw log as the loop sees it:
\*   name      the event helper.EventByID finds for Topics[0]
\*   hits      how many ABIs of tl.abis know that topic
\*   unpackErr helper.UnpackLog returns an error for it
\*   self      the self test on the event struct UnpackLog left behind
\*             (bytes.Equal on SignerPubkey / User, util.IsEventSender)
\*   idNil     UnpackLog failed before it set event.ValidatorId
LogShapes ==
    { [name |-> "unknown", hits |-> 0, unpackErr |-> FALSE, self |-> FALSE,
       idNil |-> FALSE] }
    \cup
    { [name |-> n, hits |-> k, unpackErr |-> FALSE, self |-> FALSE,
       idNil |-> FALSE] : n \in Plain, k \in 1..NumAbis }
    \cup
    { [name |-> n, hits |-> k, unpackErr |-> e, self |-> s, idNil |-> FALSE] :
        n \in Decoded, k \in 1..NumAbis,
        e \in BOOLEAN, s \in BOOLEAN }
    \cup
    { [name |-> n, hits |-> k, unpackErr |-> TRUE, self |-> FALSE,
       idNil |-> TRUE] : n \in ById, k \in 1..NumAbis }

NoLog == [name |-> "none", hits |-> 0, unpackErr |-> FALSE, self |-> FALSE,
          idNil |-> FALSE]

\* util.CalculateTaskDelay: (isCurrentValidator, delay); the delay is the
\* validator's position times TaskDelayBetweenEachVal
TaskDelays ==
    { [cur |-> FALSE, delay |-> 0] }
    \cup { [cur |-> TRUE, delay |-> p * TaskDelayBetweenEachVal] :
             p \in 0..MaxStagger }

\* the task each case of the switch sends (lines 184-282)
TaskNameOf(eventName) ==
    CASE eventName = "NewHeaderBlock" -> "sendCheckpointAckToHeimdall"
      [] eventName = "Staked"         -> "sendValidatorJoinToHeimdall"
      [] eventName = "StakeUpdate"    -> "sendStakeUpdateToHeimdall"
      [] eventName = "SignerChange"   -> "sendSignerChangeToHeimdall"
      [] eventName = "UnstakeInit"    -> "sendUnstakeInitToHeimdall"
      [] eventName = "StateSynced"    -> "sendStateSyncedToHeimdall"
      [] eventName = "TopUpFee"       -> "sendTopUpFeeToHeimdall"
      [] eventName = "Slashed"        -> "sendTickAckToHeimdall"
      [] eventName = "UnJailed"       -> "sendUnjailToHeimdall"
      [] eventName = "StakeAck"       -> "sendStakingAckToHeimdall"
      [] OTHER                        -> "none"

\* sendTaskWithDelay (lines 292-320): the task handed to the queue
sendTaskWithDelay(taskName, eventName, delay) ==
    [name |-> taskName, event |-> eventName, delay |-> delay]

\* RoleAllows with the guard of the TopUpFee case (line 247) left out
RoleAllowsUngatedTopUp(eventName, isStake) ==
    IF eventName \in StakeOnly \ {"TopUpFee"} THEN isStake
    ELSE IF eventName = "StakeAck" THEN ~isStake
    ELSE TRUE

\* the role guard of a case: lines 187, 204, 216, 229, 247, 260, 267 and 280
RoleAllows(eventName, isStake) ==
    IF eventName \in StakeOnly THEN isStake
    ELSE IF eventName = "StakeAck" THEN ~isStake
    ELSE TRUE

\* event.ValidatorId.Uint64() on the nil *big.Int of a failed UnpackLog
\* (lines 209, 234, 272) is a nil dereference
Panics(log, isStake) ==
    /\ log.hits > 0
    /\ log.name \in ById
    /\ RoleAllows(log.name, isStake)
    /\ log.unpackErr /\ log.idNil

\* HandleEvent with the stagger delay applied to a validator's own event too
HandleEventSelfStaggered(log, isStake, ctd) ==
    LET n == log.name
        t(d) == <<sendTaskWithDelay(TaskNameOf(n), n, d)>>
    IN
    IF ~RoleAllows(n, isStake) THEN <<>>
    ELSE IF n \in Plain THEN (IF ctd.cur THEN t(ctd.delay) ELSE <<>>)
    ELSE IF n = "Staked" THEN
        IF log.self THEN t(TaskDelayBetweenEachVal)
        ELSE IF ctd.cur THEN t(ctd.delay + TaskDelayBetweenEachVal)
        ELSE <<>>
    ELSE IF n \in Decoded THEN
        IF log.self THEN t(IF ctd.cur THEN ctd.delay ELSE 0)
        ELSE IF ctd.cur THEN t(ctd.delay)
        ELSE <<>>
    ELSE <<>>

\* HandleEvent without the offset of line 194 on a validator's own join
HandleEventJoinNoOffset(log, isStake, ctd) ==
    LET n == log.name
        t(d) == <<sendTaskWithDelay(TaskNameOf(n), n, d)>>
    IN
    IF ~RoleAllows(n, isStake) THEN <<>>
    ELSE IF n \in Plain THEN (IF ctd.cur THEN t(ctd.delay) ELSE <<>>)
    ELSE IF n = "Staked" THEN
        IF log.self THEN t(0)
        ELSE IF ctd.cur THEN t(ctd.delay + TaskDelayBetweenEachVal)
        ELSE <<>>
    ELSE IF n \in Decoded THEN
        IF log.self THEN t(0)
        ELSE IF ctd.cur THEN t(ctd.delay)
        ELSE <<>>
    ELSE <<>>

\* HandleEvent without the isCurrentValidator test of the plain cases
HandleEventAlwaysSend(log, isStake, ctd) ==
    LET n == log.name
        t(d) == <<sendTaskWithDelay(TaskNameOf(n), n, d)>>
    IN
    IF ~RoleAllows(n, isStake) THEN <<>>
    ELSE IF n \in Plain THEN t(ctd.delay)
    ELSE IF n = "Staked" THEN
        IF log.self THEN t(TaskDelayBetweenEachVal)
        ELSE IF ctd.cur THEN t(ctd.delay + TaskDelayBetweenEachVal)
        ELSE <<>>
    ELSE IF n \in Decoded THEN
        IF log.self THEN t(0)
        ELSE IF ctd.cur THEN t(ctd.delay)
        ELSE <<>>
    ELSE <<>>

\* One execution of the switch (lines 181-285) for a log whose topic the ABI
\* knows; ctd is what CalculateTaskDelay answers if it is asked.  A failed
\* UnpackLog is only logged (lines 189-191 and alike): the case goes on.
HandleEvent(log, isStake, ctd) ==
    LET n == log.name
        t(d) == <<sendTaskWithDelay(TaskNameOf(n), n, d)>>
    IN
    IF ~RoleAllows(n, isStake) THEN <<>>
    ELSE IF n \in Plain THEN (IF ctd.cur THEN t(ctd.delay) ELSE <<>>)
    ELSE IF n = "Staked" THEN
        IF log.self THEN t(TaskDelayBetweenEachVal)
        ELSE IF ctd.cur THEN t(ctd.delay + TaskDelayBetweenEachVal)
        ELSE <<>>
    ELSE IF n \in Decoded THEN
        IF log.self THEN t(0)
        ELSE IF ctd.cur THEN t(ctd.delay)
        ELSE <<>>
    ELSE <<>>

RECURSIVE HandleHits(_, _, _, _)
\* the loop over tl.abis (lines 176-287) for one log: the switch runs once
\* for every ABI that knows the topic; ctds[i] answers the i-th run
HandleHits(log, isStake, ctds, i) ==
    IF i > log.hits THEN <<>>
    ELSE HandleEvent(log, isStake, ctds[i])
           \o HandleHits(log, isStake, ctds, i + 1)

\* ---------------------------------------------------------------- state
VARIABLES
    store,          \* the value under "tron-last-block": NoKey or Stored(bytes)
    confirmations,  \* chainManagerParams.TronchainTxConfirmations
    isStake,        \* tl.rootChainType == types.RootChainTypeStake
    pc,             \* statement the header processor is at
    number,         \* newHeader.Number of the cycle, as ProcessHeader left it
    fromBlock,      \* local fromBlock of the cycle
    toBlock,        \* local toBlock of the cycle
    cyc,            \* the cycle: head received, store at entry, return taken
    putState,       \* storageClient.Put of the cycle: "none", "ok", "failed"
    queryState,     \* log query of the cycle: "none", "ok", "failed"
    qFrom, qTo,     \* the range handed to GetTronEventsByContractAddress
    nLogs,          \* len(logs) of the cycle
    idx,            \* logs of the cycle whose loop iteration is complete
    lastLog,        \* the log of the latest loop iteration
    lastLogTasks,   \* the tasks that iteration submitted, in order
    sentCount,      \* tasks submitted in the cycle
    panicked,       \* the cycle ended in a nil dereference
    prev,           \* the latest earlier cycle that queried: its range and
                    \* whether its Put failed
    lastCtds,       \* what CalculateTaskDelay answered in the latest iteration
    topUpMax,       \* largest delay of a sendTopUpFeeToHeimdall task of the
                    \* cycle, -1 if there is none
    joinMin,        \* smallest delay of a sendValidatorJoinToHeimdall task of
                    \* the cycle, -1 if there is none
    pollPc,         \* StartPolling: "select", "send" (line 89) or "stopped"
    pending,        \* the head StartPolling is sending
    cancelled,      \* headerCtx is cancelled
    hp              \* the StartHeaderProcess goroutines: "select", "busy"
                    \* (inside ProcessHeader) or "stopped"

vars == <<store, confirmations, isStake, pc, number, fromBlock, toBlock, cyc,
          putState, queryState, qFrom, qTo, nLogs, idx, lastLog, lastLogTasks,
          sentCount, panicked, prev, lastCtds, topUpMax, joinMin,
          pollPc, pending, cancelled, hp>>

pollVars == <<pollPc, pending, cancelled, hp>>

coreVars == <<store, confirmations, isStake, pc, number, fromBlock, toBlock,
              cyc, putState, queryState, qFrom, qTo, nLogs, idx, lastLog,
              lastLogTasks, sentCount, panicked, prev, lastCtds, topUpMax,
              joinMin>>

\* Start with a second "go tl.StartHeaderProcess(headerCtx)"
TwoHeaderProcesses == 1 + 1

\* line 62: Start launches one StartHeaderProcess goroutine
HeaderProcesses == 1

NoCycle == [head |-> 0, cp0 |-> NoKey, outcome |-> "none", hasFailed |-> FALSE]
NoPrev == [queried |-> FALSE, from |-> 0, to |-> 0, putFailed |-> FALSE]

\* The store starts without the key, or with bytes under it that are not a
\* decimal number (the parse-error branch of line 132); every other value is
\* written by Put.
Init ==
    /\ store \in {NoKey, Stored(<<NonDigit>>), Stored(<<>>)}
    /\ confirmations \in 0..MaxConf
    /\ isStake \in BOOLEAN
    /\ pc = "idle"
    /\ number = 0 /\ fromBlock = 0 /\ toBlock = 0
    /\ cyc = NoCycle
    /\ putState = "none" /\ queryState = "none"
    /\ qFrom = 0 /\ qTo = 0
    /\ nLogs = 0 /\ idx = 0
    /\ lastLog = NoLog /\ lastLogTasks = <<>>
    /\ sentCount = 0
    /\ panicked = FALSE
    /\ prev = NoPrev
    /\ lastCtds = <<>>
    /\ topUpMax = -1 /\ joinMin = -1
    /\ pollPc = "select"
    /\ pending = 0
    /\ cancelled = FALSE
    /\ hp = [i \in 1..HeaderProcesses |-> "select"]

\* lines 148 and 153 exchanged: the query first, the Put after it
NextStepQueryFirst(step) ==
    CASE step = "resolve" -> "query"
      [] step = "query"   -> "put"
      [] step = "put"     -> "logs"

\* Statement order of ProcessHeader after the range is resolved: Put (148),
\* then queryAndBroadcastEvents (153), whose query (165) precedes its loop (174)
NextStep(step) ==
    CASE step = "resolve" -> "put"
      [] step = "put"     -> "query"
      [] step = "query"   -> "logs"

\* line 165 with the two block arguments exchanged
QueryArgsSwapped(from, to) == [from |-> to, to |-> from]

\* the arguments of GetTronEventsByContractAddress (line 165)
QueryArgs(from, to) == [from |-> from, to |-> to]

\* ProcessHeader, lines 102-145: a head arrives; params, confirmation check,
\* Has/Get/ParseUint, stale check and clamp.
ProcessHeader(h, paramsErr, hasErr, getErr) ==
    /\ pc = "idle"
    /\ LET r == Resolve(h, paramsErr, confirmations, store, hasErr, getErr)
       IN  /\ cyc' = [head |-> h, cp0 |-> store, outcome |-> r.outcome,
                      hasFailed |-> r.hasFailed]
           /\ number' = r.number
           /\ fromBlock' = r.from
           /\ toBlock' = r.to
           /\ pc' = IF r.outcome = "resolved" THEN NextStep("resolve")
                    ELSE "idle"
    /\ prev' = IF queryState # "none"
                THEN [queried |-> TRUE, from |-> qFrom, to |-> qTo,
                      putFailed |-> putState = "failed"]
                ELSE prev
    /\ putState' = "none" /\ queryState' = "none"
    /\ qFrom' = 0 /\ qTo' = 0
    /\ nLogs' = 0 /\ idx' = 0
    /\ lastLog' = NoLog /\ lastLogTasks' = <<>>
    /\ sentCount' = 0
    /\ panicked' = FALSE
    /\ lastCtds' = <<>>
    /\ topUpMax' = -1 /\ joinMin' = -1
    /\ UNCHANGED <<store, confirmations, isStake>>

\* lines 147-150: Put(tronLastBlockKey, toBlock.String()); an error is logged
PutLastBlock(putErr) ==
    /\ pc = "put"
    /\ store' = IF putErr THEN store ELSE Stored(FormatUint(toBlock))
    /\ putState' = IF putErr THEN "failed" ELSE "ok"
    /\ pc' = NextStep("put")
    /\ UNCHANGED <<confirmations, isStake, number, fromBlock, toBlock, cyc,
                   queryState, qFrom, qTo, nLogs, idx, lastLog, lastLogTasks,
                   sentCount, panicked, prev, lastCtds, topUpMax, joinMin>>
    /\ UNCHANGED pollVars

\* lines 156-172: the log query; on error the cycle returns
QueryEvents(queryErr, n) ==
    /\ pc = "query"
    /\ LET args == QueryArgs(fromBlock, toBlock)
       IN  qFrom' = args.from /\ qTo' = args.to
    /\ queryState' = IF queryErr THEN "failed" ELSE "ok"
    /\ nLogs' = IF queryErr THEN 0 ELSE n
    /\ pc' = IF queryErr \/ n = 0 THEN "idle" ELSE NextStep("query")
    /\ UNCHANGED <<store, confirmations, isStake, number, fromBlock, toBlock,
                   cyc, putState, idx, lastLog, lastLogTasks, sentCount,
                   panicked, prev, lastCtds, topUpMax, joinMin>>
    /\ UNCHANGED pollVars

\* the delays of the tasks named taskName among sent
DelaysOf(sent, taskName) ==
    { sent[i].delay : i \in { j \in 1..Len(sent) : sent[j].name = taskName } }

\* the largest of old (-1: none) and the delays of the taskName tasks in sent
MaxDelay(sent, taskName, old) ==
    LET ds == DelaysOf(sent, taskName) \cup {old}
    IN  CHOOSE d \in ds : \A e \in ds : e <= d

\* the smallest of old (-1: none) and the delays of the taskName tasks in sent
MinDelay(sent, taskName, old) ==
    LET ds == DelaysOf(sent, taskName) \cup (IF old = -1 THEN {} ELSE {old})
    IN  IF ds = {} THEN -1 ELSE CHOOSE d \in ds : \A e \in ds : d <= e

\* lines 174-288: one iteration of the loop over logs
ProcessLog(log, ctds) ==
    /\ pc = "logs"
    /\ idx < nLogs
    /\ lastLog' = log
    /\ lastCtds' = ctds
    /\ IF Panics(log, isStake)
       THEN /\ panicked' = TRUE
            /\ lastLogTasks' = <<>>
            /\ pc' = "idle"
            /\ UNCHANGED <<idx, sentCount, topUpMax, joinMin>>
       ELSE LET sent == HandleHits(log, isStake, ctds, 1)
            IN  /\ lastLogTasks' = sent
                /\ sentCount' = sentCount + Len(sent)
                /\ topUpMax' = MaxDelay(sent, "sendTopUpFeeToHeimdall", topUpMax)
                /\ joinMin' = MinDelay(sent, "sendValidatorJoinToHeimdall", joinMin)
                /\ idx' = idx + 1
                /\ pc' = IF idx + 1 = nLogs THEN "idle" ELSE "logs"
                /\ UNCHANGED panicked
    /\ UNCHANGED <<store, confirmations, isStake, number, fromBlock, toBlock,
                   cyc, putState, queryState, qFrom, qTo, nLogs, prev>>
    /\ UNCHANGED pollVars

\* One step of the header processor, with the heads, the logs and the
\* CalculateTaskDelay answers drawn from the given sets
NextOver(HeadSet, Shapes, Delays) ==
    \/ \E h \in HeadSet, paramsErr \in BOOLEAN, hasErr \in BOOLEAN,
          getErr \in BOOLEAN :
              ProcessHeader(h, paramsErr, hasErr, getErr) /\ UNCHANGED pollVars
    \/ \E putErr \in BOOLEAN : PutLastBlock(putErr)
    \/ \E queryErr \in BOOLEAN, n \in 0..MaxLogs : QueryEvents(queryErr, n)
    \/ \E log \in Shapes : \E ctds \in [1..log.hits -> Delays] :
          ProcessLog(log, ctds)

\* Spec: every head and every store outcome; the logs are an unknown topic or
\* a StateSynced known to one ABI.
RangeShapes == { l \in LogShapes : l.name \in {"unknown", "StateSynced"}
                                   /\ l.hits <= 1 }

Next == NextOver(Heads, RangeShapes, TaskDelays)

Spec == Init /\ [][Next]_vars

\* SpecScan: the runs in which every Get, every Put and every log query
\* succeeds.
NextScan ==
    \/ \E h \in Heads, paramsErr \in BOOLEAN, hasErr \in BOOLEAN :
          ProcessHeader(h, paramsErr, hasErr, FALSE) /\ UNCHANGED pollVars
    \/ PutLastBlock(FALSE)
    \/ \E n \in 0..MaxLogs : QueryEvents(FALSE, n)
    \/ \E log \in RangeShapes : \E ctds \in [1..log.hits -> TaskDelays] :
          ProcessLog(log, ctds)

SpecScan == Init /\ [][NextScan]_vars

\* SpecDispatch: every event, each topic known to at most one ABI; the head
\* is BigHead in every cycle and no confirmations are required.
InitDispatch == Init /\ confirmations = 0

DispatchShapes == { l \in LogShapes : l.hits <= 1 }

NextDispatch == NextOver({BigHead}, DispatchShapes, TaskDelays)

SpecDispatch == InitDispatch /\ [][NextDispatch]_vars

\* SpecAbis: topics known to any number of the ABIs, for three of the events;
\* CalculateTaskDelay answers "not current" or "current, first position".
AbiShapes == { l \in LogShapes : l.name \in {"unknown", "StateSynced", "Staked"} }

AbiDelays == { d \in TaskDelays : d.delay = 0 }

NextAbis == NextOver({BigHead}, AbiShapes, AbiDelays)

SpecAbis == InitDispatch /\ [][NextAbis]_vars

\* ------------------------------------------------- the two goroutines
\* StartPolling, lines 84-91: the ticker fires; if GetTronLatestBlockNumber
\* returns a head, the poller goes to the send of line 89.  The select may
\* take this case also when ctx.Done() is ready.
Tick(h, fetchErr) ==
    /\ pollPc = "select"
    /\ pollPc' = IF fetchErr THEN "select" ELSE "send"
    /\ pending' = IF fetchErr THEN pending ELSE h
    /\ UNCHANGED <<cancelled, hp>>
    /\ UNCHANGED coreVars

\* StartPolling, lines 93-96: case <-ctx.Done(): ticker.Stop(); return
PollStop ==
    /\ pollPc = "select"
    /\ cancelled
    /\ pollPc' = "stopped"
    /\ UNCHANGED <<pending, cancelled, hp>>
    /\ UNCHANGED coreVars

\* StartHeaderProcess: case newHeader := <-HeaderChannel, the other half of
\* the send of line 89, followed by the call of ProcessHeader.  A goroutine
\* that receives while another one is inside ProcessHeader starts a second,
\* overlapping cycle.
Receive(i, paramsErr, hasErr, getErr) ==
    /\ hp[i] = "select"
    /\ pollPc = "send"
    /\ IF pc = "idle" THEN ProcessHeader(pending, paramsErr, hasErr, getErr)
       ELSE UNCHANGED coreVars
    /\ hp' = [hp EXCEPT ![i] = "busy"]
    /\ pollPc' = "select"
    /\ pending' = 0
    /\ UNCHANGED cancelled

\* StartHeaderProcess: ProcessHeader has returned, back to the select
Return(i) ==
    /\ hp[i] = "busy"
    /\ pc = "idle"
    /\ hp' = [hp EXCEPT ![i] = "select"]
    /\ UNCHANGED <<pollPc, pending, cancelled>>
    /\ UNCHANGED coreVars

\* StartHeaderProcess: case <-ctx.Done(): return
HeaderStop(i) ==
    /\ hp[i] = "select"
    /\ cancelled
    /\ hp' = [hp EXCEPT ![i] = "stopped"]
    /\ UNCHANGED <<pollPc, pending, cancelled>>
    /\ UNCHANGED coreVars

\* tl.cancelHeaderProcess(), the cancel function Start keeps (line 58)
Cancel ==
    /\ ~cancelled
    /\ cancelled' = TRUE
    /\ UNCHANGED <<pollPc, pending, hp>>
    /\ UNCHANGED coreVars

\* SpecPoll: the poller and the header process around the cycle; two heads,
\* no confirmations, logs as in Spec.
PollHeads == {BigHead, BigHead + 1}

NextPoll ==
    \/ \E h \in PollHeads, fetchErr \in BOOLEAN : Tick(h, fetchErr)
    \/ PollStop
    \/ \E i \in DOMAIN hp, paramsErr \in BOOLEAN, hasErr \in BOOLEAN,
          getErr \in BOOLEAN : Receive(i, paramsErr, hasErr, getErr)
    \/ \E i \in DOMAIN hp : Return(i)
    \/ \E i \in DOMAIN hp : HeaderStop(i)
    \/ Cancel
    \/ \E putErr \in BOOLEAN : PutLastBlock(putErr)
    \/ \E queryErr \in BOOLEAN, n \in 0..MaxLogs : QueryEvents(queryErr, n)
    \/ \E log \in RangeShapes : \E ctds \in [1..log.hits -> AbiDelays] :
          ProcessLog(log, ctds)

SpecPoll == InitDispatch /\ [][NextPoll]_vars

\* ------------------------------------------------------------ properties
\* the checkpoint the cycle found at entry, parsed
Cp0 == ParseUint(cyc.cp0.val)
Cp0Parsed == cyc.cp0.has /\ Cp0.ok
\* the cycle made no checkpoint write, no log query and no task submission
NoEffect ==
    /\ pc = "idle"
    /\ putState = "none"
    /\ queryState = "none"
    /\ sentCount = 0
    /\ store = cyc.cp0

\* C1: every successful Put of a cycle writes a value that is at least the
\* value the store held when the cycle began.
C1_CheckpointMonotone ==
    (putState = "ok" /\ Cp0Parsed) => ParseUint(store.val).val >= Cp0.val

\* C2: with params and store reads succeeding and a checkpoint k such that
\* head - confirmations <= k < head, the cycle does not return early: its
\* range is (head - confirmations, head - confirmations), and that is the
\* range it queries.
C2_OvershootClamped ==
    ( /\ cyc.outcome \notin {"none", "paramsErr", "getErr"}
      /\ ~cyc.hasFailed
      /\ Cp0Parsed
      /\ cyc.head > confirmations
      /\ cyc.head - confirmations <= Cp0.val
      /\ Cp0.val < cyc.head )
    => /\ cyc.outcome = "resolved"
       /\ fromBlock = cyc.head - confirmations
       /\ toBlock = cyc.head - confirmations
       /\ (queryState # "none" => /\ qFrom = cyc.head - confirmations
                                  /\ qTo = cyc.head - confirmations)

\* C3: a cycle whose head is at most the stored checkpoint is a no-op: no
\* checkpoint write, no log query, no task.
C3_StaleHeadNoOp ==
    (cyc.outcome # "none" /\ Cp0Parsed /\ Cp0.val >= cyc.head) => NoEffect

\* C4: a cycle whose head is at most the confirmation depth makes no
\* checkpoint write, no log query and no task submission.
C4_UnconfirmedNoOp ==
    (cyc.outcome # "none" /\ cyc.head <= confirmations) => NoEffect

\* C4 witness: a head equal to a positive confirmation depth was received
\* over a stored checkpoint and the cycle returned at the confirmation check.
C4_Witness ==
    /\ cyc.outcome = "unconfirmed"
    /\ cyc.head = confirmations /\ confirmations > 0
    /\ Cp0Parsed

\* C5: the range handed to the log query has fromBlock <= toBlock.
C5_FromLeTo ==
    queryState # "none" => qFrom <= qTo

\* C5 witness: a query over several blocks, resolved from a stored checkpoint.
C5_Witness ==
    /\ queryState = "ok" /\ qFrom < qTo
    /\ Cp0Parsed /\ qFrom = Cp0.val + 1

\* C6: the log query and every task submission of a cycle come after the
\* cycle's checkpoint Put was attempted.
C6_PutBeforeQuery ==
    (pc \in {"query", "logs"} \/ queryState # "none" \/ sentCount > 0)
        => putState # "none"

\* C6 witness: a cycle that has put, queried and submitted a task.
C6_Witness ==
    putState = "ok" /\ queryState = "ok" /\ sentCount > 0

\* C7: a cycle whose log query fails leaves the checkpoint as it found it.
C7_QueryFailureKeepsState ==
    queryState = "failed" => store = cyc.cp0

\* C8: a cycle whose Put fails still queries its range, and the next cycle
\* that resolves a range starts it at or before that cycle's fromBlock.
C8_PutFailureNoGap ==
    /\ (putState = "failed" /\ pc = "idle") => queryState # "none"
    /\ (prev.queried /\ prev.putFailed /\ cyc.outcome = "resolved")
          => fromBlock <= prev.from

\* C9: a cycle in which the params fetch, Has or Get fails makes no
\* checkpoint write, no log query and no task submission.
C9_ReadFailureAborts ==
    (cyc.outcome \in {"paramsErr", "getErr"} \/ cyc.hasFailed) => NoEffect

\* C10: a log whose UnpackLog fails gets no task, and every log of a queried
\* batch has been processed when the cycle ends.
C10_DecodeFailureSkips ==
    /\ ( /\ lastLog.unpackErr
         /\ lastLog.hits > 0
         /\ lastLog.name \in Decoded
         /\ RoleAllows(lastLog.name, isStake) )
       => lastLogTasks = <<>>
    /\ (queryState = "ok" /\ pc = "idle") => idx = nLogs

\* C11: a raw log gets at most one task, whatever topics the ABIs of tl.abis
\* know: the first ABI that knows the topic decides and the others are not
\* consulted.
C11_OneTaskPerLog == Len(lastLogTasks) <= 1

\* the delay a validator's own event is dispatched with
SelfDelay(eventName) ==
    IF eventName = "Staked" THEN TaskDelayBetweenEachVal ELSE 0

\* C12 as stated: every event of this validator's own (self test true) is
\* dispatched, and with delay 0.
C12_SelfDelayZero ==
    (lastLog.self /\ lastLog.hits > 0)
        => /\ lastLogTasks # <<>>
           /\ \A i \in 1..Len(lastLogTasks) : lastLogTasks[i].delay = 0

\* C12 amended: every task dispatched for an event of this validator's own
\* has delay 0, except that the task of a Staked event has delay
\* TaskDelayBetweenEachVal; on the stake-authority listener the task is
\* dispatched (once per ABI that knows the topic) whatever CalculateTaskDelay
\* answers, on any other listener none is.
C12_SelfDelay ==
    (lastLog.self /\ lastLog.hits > 0)
        => /\ \A i \in 1..Len(lastLogTasks) :
                  lastLogTasks[i].delay = SelfDelay(lastLog.name)
           /\ Len(lastLogTasks) = (IF isStake THEN lastLog.hits ELSE 0)

C12_Witness ==
    /\ isStake
    /\ lastLog.self /\ lastLog.name = "TopUpFee" /\ lastLog.hits = 1
    /\ ~lastCtds[1].cur
    /\ Len(lastLogTasks) = 1 /\ lastLogTasks[1].delay = 0

JoinTask == [name |-> "sendValidatorJoinToHeimdall", event |-> "Staked",
             delay |-> TaskDelayBetweenEachVal]

\* C13 as stated: a Staked event signed by this validator always produces
\* exactly one task, sendValidatorJoinToHeimdall with delay
\* TaskDelayBetweenEachVal.
C13_SelfJoinAlways ==
    (lastLog.name = "Staked" /\ lastLog.self /\ lastLog.hits > 0)
        => lastLogTasks = <<JoinTask>>

\* C13 amended: on the stake-authority listener a Staked event signed by this
\* validator produces, for each ABI that knows its topic, one task
\* sendValidatorJoinToHeimdall with delay exactly TaskDelayBetweenEachVal,
\* whatever CalculateTaskDelay answers.
C13_SelfJoinDelay ==
    (isStake /\ lastLog.name = "Staked" /\ lastLog.self /\ lastLog.hits > 0)
        => /\ Len(lastLogTasks) = lastLog.hits
           /\ \A i \in 1..Len(lastLogTasks) : lastLogTasks[i] = JoinTask

C13_Witness ==
    /\ isStake
    /\ lastLog.name = "Staked" /\ lastLog.self /\ lastLog.hits = 1
    /\ ~lastCtds[1].cur
    /\ lastLogTasks = <<JoinTask>>

\* the runs of the switch in which CalculateTaskDelay answered "current"
CurrentRuns == { i \in DOMAIN lastCtds : lastCtds[i].cur }

\* C14: for an event that is not this validator's own a task is submitted
\* only in a run where CalculateTaskDelay reports a current validator, and
\* its delay is the non-negative delay reported, plus
\* TaskDelayBetweenEachVal for Staked.
C14_NonSelfNeedsCurrent ==
    (~lastLog.self /\ lastLog.hits > 0)
        => /\ Len(lastLogTasks) <= Cardinality(CurrentRuns)
           /\ \A i \in 1..Len(lastLogTasks) :
                  /\ lastLogTasks[i].delay >= 0
                  /\ \E j \in CurrentRuns :
                         lastLogTasks[i].delay =
                             lastCtds[j].delay
                             + (IF lastLog.name = "Staked"
                                THEN TaskDelayBetweenEachVal ELSE 0)

C14_Witness ==
    /\ isStake
    /\ lastLog.name = "Staked" /\ ~lastLog.self /\ lastLog.hits = 1
    /\ lastCtds[1].cur /\ lastCtds[1].delay = TaskDelayBetweenEachVal
    /\ Len(lastLogTasks) = 1
    /\ lastLogTasks[1].delay = 2 * TaskDelayBetweenEachVal

\* C15: off the stake-authority listener no task is submitted for Staked,
\* StakeUpdate, SignerChange, UnstakeInit, TopUpFee, Slashed or UnJailed, a
\* validator's own events included; on it none is submitted for StakeAck;
\* NewHeaderBlock and StateSynced depend on CalculateTaskDelay alone.
C15_RoleGating ==
    /\ ( /\ ~isStake
         /\ lastLog.name \in {"Staked", "StakeUpdate", "SignerChange",
                               "UnstakeInit", "TopUpFee", "Slashed",
                               "UnJailed"} )
       => lastLogTasks = <<>>
    /\ (isStake /\ lastLog.name = "StakeAck") => lastLogTasks = <<>>
    /\ ( /\ lastLog.name \in {"NewHeaderBlock", "StateSynced"}
         /\ lastLog.hits > 0 )
       => Len(lastLogTasks) = Cardinality(CurrentRuns)

C15_Witness ==
    /\ ~isStake
    /\ lastLog.name = "TopUpFee" /\ lastLog.self /\ lastLog.hits = 1
    /\ ~lastLog.unpackErr
    /\ lastCtds[1].cur
    /\ lastLogTasks = <<>>

\* C17: in one cycle every sendValidatorJoinToHeimdall task has a delay
\* strictly greater than every sendTopUpFeeToHeimdall task.
C17_JoinAfterTopUp ==
    (topUpMax # -1 /\ joinMin # -1) => joinMin > topUpMax

\* the first cycle's preconditions: nothing stored under the key, a head
\* above the confirmations, and the params fetched
FirstRun ==
    /\ cyc.outcome \notin {"none", "paramsErr"}
    /\ ~cyc.cp0.has
    /\ cyc.head > confirmations

StateSyncedTask(delay) ==
    [name |-> "sendStateSyncedToHeimdall", event |-> "StateSynced",
     delay |-> delay]

\* C16: on a first run (no checkpoint stored, head h > confirmations c) the
\* cycle resolves and queries exactly the range (h-c, h-c), the checkpoint
\* its Put writes is h-c, and if the range holds one StateSynced log and this
\* validator is a current validator exactly one task
\* sendStateSyncedToHeimdall is submitted.
C16_FirstRun ==
    FirstRun =>
        LET target == cyc.head - confirmations
        IN  /\ cyc.outcome = "resolved"
            /\ fromBlock = target /\ toBlock = target
            /\ queryState # "none" => (qFrom = target /\ qTo = target)
            /\ putState = "ok"
                 => /\ store.has
                    /\ ParseUint(store.val) = [ok |-> TRUE, val |-> target]
            /\ ( /\ pc = "idle" /\ queryState = "ok" /\ nLogs = 1
                 /\ lastLog.name = "StateSynced" /\ lastLog.hits = 1
                 /\ lastCtds[1].cur )
               => /\ sentCount = 1
                  /\ lastLogTasks = <<StateSyncedTask(lastCtds[1].delay)>>

C16_Witness ==
    /\ FirstRun
    /\ confirmations = MaxConf
    /\ cyc.head = BigHead + 1
    /\ pc = "idle" /\ putState = "ok" /\ queryState = "ok" /\ nLogs = 1
    /\ qFrom = BigHead + 1 - MaxConf /\ qTo = qFrom
    /\ store = Stored(FormatUint(qTo))
    /\ sentCount = 1
    /\ lastLogTasks = <<StateSyncedTask(TaskDelayBetweenEachVal)>>

\* C18: StartPolling never stays at the send on HeaderChannel once the
\* header process has stopped: it is blocked only on the ticker or on the
\* cancellation, so that it returns after the cancellation.
C18_PollerNeverStuckOnSend ==
    ~(pollPc = "send" /\ \A i \in DOMAIN hp : hp[i] = "stopped")

\* the header-process goroutines that are inside ProcessHeader
Busy == { i \in DOMAIN hp : hp[i] = "busy" }

\* C19: at most one ProcessHeader cycle is in progress at any time, and the
\* cycle in progress belongs to the one header-process goroutine; a head
\* that arrives meanwhile waits at the channel.
C19_CyclesNeverOverlap ==
    /\ Cardinality(Busy) <= 1
    /\ pc # "idle" => Cardinality(Busy) = 1

C19_Witness ==
    /\ pc = "query"
    /\ pollPc = "send"
    /\ Cardinality(Busy) = 1

\* C20: when every Get, every Put and every log query succeeds, each cycle
\* that queries after an earlier one starts at the block after the range the
\* earlier one queried.
C20_GapFree ==
    (prev.queried /\ queryState # "none") => qFrom = prev.to + 1

\* the same with the cycles in which Has fails left out
GapFreeWhenHasSucceeds ==
    (prev.queried /\ queryState # "none" /\ ~cyc.hasFailed)
        => qFrom = prev.to + 1

====
